---- MODULE Spec2Model ----
(***************************************************************************)
(* A model of qtune's tuning driver: Autotuner (autotuner.py) sequencing   *)
(* an ordered hierarchy of ParameterTuner stages (parameter_tuner.py) over *)
(* an Experiment with named gate voltages.                                 *)
(*                                                                         *)
(* Conventions.                                                            *)
(*  - A pd.Series of voltages is a function from gate names to values.     *)
(*  - An Optional value (None or a value) is a set of at most one element: *)
(*    None is {}, a value v is {v}.  A float that may be NaN is modelled   *)
(*    the same way (NaN is {}).                                            *)
(*  - Python indices are 0-based; the hierarchy is a TLA+ sequence, so the *)
(*    tuner with Python index i is tuning_hierarchy[i + 1].                *)
(*  - autotuner.py reads par_tuner.last_voltages, par_tuner.tunable_gates  *)
(*    and last_parameters_and_variances, which parameter_tuner.py stores   *)
(*    as _last_voltage, _gates and (_last_parameter_values,                *)
(*    _last_parameter_covariances); they are modelled as plain readers of  *)
(*    those fields.                                                        *)
(*  - qtune.solver, qtune.experiment and qtune.storage are not part of the *)
(*    sources; the Solver, the Experiment and the AsynchronousHDF5Writer   *)
(*    are modelled at their boundary.                                      *)
(*  - Spec is the caller's thread running iterate(); SpecWriter adds the   *)
(*    writer working in the background; SpecConstruction is the            *)
(*    construction of tuners alone and SpecTuner a tuner asked directly.   *)
(*  - SpecChargeDiagram is a ChargeDiagram (chrg_diag.py) on a double dot *)
(*    with four gates; its voltages and positions are counted in units of  *)
(*    10 microvolts.                                                       *)
(*  - Logging has no effect on the state and is not modelled, except where *)
(*    evaluating a logged expression can raise.                            *)
(***************************************************************************)
EXTENDS Integers, Sequences, FiniteSets, TLC

\* ------------------------------------------------------------------ bounds

\* Largest number of stages in a hierarchy.
MaxStages == 2
\* Largest number of iterate() calls in a run.
MaxCalls == 5
\* Largest number of evaluators in a list of evaluators given to a tuner.
MaxEvaluators == 2
\* Largest number of is_tuned calls on a tuner asked directly.
MaxAsked == 1
\* Largest number of fields of a hierarchy that depart from the plain
\* configuration (see PlainTuner) in an initial state.
MaxDepartures == 2

\* ------------------------------------------------------------------ values

None == {}

Some(v) == {v}

The(opt) == CHOOSE v \in opt : TRUE

Abs(x) == IF x < 0 THEN -x ELSE x

\* The gates the experiment reports, and one name it does not know.
ExperimentGates == {"BA", "BB"}

UnknownGate == "X"

\* The values a voltage takes: a low and a high one.
Voltages == {0, 1}

\* The values an evaluated parameter takes: one at the desired value and at
\* the cost threshold (0), one at the minimum (1) and one above it (2).
Parameters == {0, 1, 2}

\* All pd.Series of voltages over the gate set gs.
Series(gs) == [gs -> Voltages]

\* set(series.index)
Index(series) == DOMAIN series

\* series[labels] for a list of labels all present in the index.
Select(series, labels) == [g \in labels |-> series[g]]

\* series with the entries of other written over it (the index grows by the
\* labels of other that are new): result[other.index] = other.
Overwrite(series, other) ==
  [g \in Index(series) \cup Index(other) |->
     IF g \in Index(other) THEN other[g] ELSE series[g]]

\* series.add(other, fill_value=0)
Add(series, other) ==
  [g \in Index(series) \cup Index(other) |->
     (IF g \in Index(series) THEN series[g] ELSE 0)
     + (IF g \in Index(other) THEN other[g] ELSE 0)]

\* ------------------------------------------------------------------ Solver

\* The name of the parameter the evaluators of tuner number k (1-based)
\* return.
ParameterName(k) == "p" \o ToString(k)

\* Solver.update_after_step(position, parameters, variances): the solver and
\* each of its gradient estimators record the new operating point on the
\* gates they hold, and the solver records the measured parameters.
update_after_step(solver, position, parameters, variances) ==
  LET moved(current) ==
        [g \in Index(current) |->
           IF g \in Index(position) THEN position[g] ELSE current[g]]
  IN [solver EXCEPT
        !.current_position = moved(@),
        !.current_values = parameters,
        !.gradient_estimators =
           [i \in DOMAIN @ |->
              [current_position |->
                 IF @[i].current_position = None
                   THEN Some(moved(solver.current_position))
                   ELSE Some(moved(The(@[i].current_position)))]]]

\* Solver.suggest_next_position(): some bounded vector on the gates of the
\* solver's operating point.
suggest_next_position(solver) == Series(Index(solver.current_position))

\* ------------------------------------------------------- ParameterTuner

\* ParameterTuner.target
target(par_tuner) == par_tuner.solver.target

\* |desired - measured| of two floats, NaN when either is NaN.
AbsDifference(desired, measured) ==
  IF desired = None \/ measured = None
    THEN None
    ELSE Some(Abs(The(desired) - The(measured)))

\* distance.fillna(0.) < tolerance.fillna(np.inf)
WithinTolerance(distance, tolerance) ==
  LET d == IF distance = None THEN 0 ELSE The(distance)
  IN tolerance = None \/ d < The(tolerance)

\* Le with the strict comparison.
Le_strict(a, b) == a /= None /\ b /= None /\ The(a) < The(b)

\* a.le(b) of two floats: False when either is NaN.
Le(a, b) == a /= None /\ b /= None /\ The(a) <= The(b)

\* The tuned criterion of SubsetTuner.is_tuned.
SubsetTuner_criterion(par_tuner, current_parameters) ==
  \A p \in DOMAIN target(par_tuner) :
    WithinTolerance(AbsDifference(target(par_tuner)[p].desired,
                                  current_parameters[p]),
                    target(par_tuner)[p].tolerance)

\* SubsetTuner.is_tuned(voltages) with the sample its evaluators return.
SubsetTuner_is_tuned(par_tuner, voltages, current_parameters, current_variances) ==
  LET tuned == SubsetTuner_criterion(par_tuner, current_parameters)
      keep == DOMAIN par_tuner.last_parameter_values
  IN [tuner |->
        [par_tuner EXCEPT
           !.solver = update_after_step(@, voltages, current_parameters,
                                        current_variances),
           !.last_voltage = Some(voltages),
           !.last_parameter_values = [p \in keep |-> current_parameters[p]],
           !.last_parameter_covariances = [p \in keep |-> current_variances[p]],
           !.tuned_voltages = IF tuned THEN Append(@, voltages) ELSE @,
           !.last_voltage_appended = tuned],
      result |-> tuned,
      raised |-> "",
      evaluated |-> <<"all">>,
      updated |-> TRUE]

\* SubsetTuner.get_next_voltages() with the position the solver suggests.
\* result = pd.Series(self._last_voltage) is a new series on the data of
\* _last_voltage: where pandas shares the data (shared; without copy-on-write)
\* writing into result writes into _last_voltage too, where it copies the
\* data _last_voltage stays as it is.  After an is_tuned call that returned
\* True, _last_voltage is the very series that was appended to
\* _tuned_voltages (last_voltage_appended), so that the write goes into the
\* last entry of the tuned voltages as well.  Writing a list of labels of
\* which one is not in the index raises (KeyError; ValueError in older
\* versions).
SubsetTuner_get_next_voltages(par_tuner, solver_voltage, shared) ==
  LET result == Overwrite(The(par_tuner.last_voltage), solver_voltage)
  IN IF ~(Index(solver_voltage) \subseteq Index(The(par_tuner.last_voltage)))
       THEN [tuner |-> par_tuner, result |-> solver_voltage,
             raised |-> "KeyError"]
       ELSE [tuner |-> IF shared
                         THEN [par_tuner EXCEPT
                                 !.last_voltage = Some(result),
                                 !.tuned_voltages =
                                    IF par_tuner.last_voltage_appended
                                      THEN [@ EXCEPT ![Len(@)] = result]
                                      ELSE @]
                         ELSE par_tuner,
             result |-> result,
             raised |-> ""]

\* current_parameter.le(self.target[column]).any()
AnyBelow(par_tuner, current_parameter, column) ==
  \E p \in DOMAIN current_parameter \cap DOMAIN target(par_tuner) :
    Le(current_parameter[p], target(par_tuner)[p][column])

\* SensingDotTuner.is_tuned(voltages) with the samples its cheap and its
\* expensive evaluators return; the expensive sample is used only when the
\* expensive evaluators are run.
SensingDotTuner_is_tuned(par_tuner, voltages, cheap, cheap_var, expensive, expensive_var) ==
  LET record(tuner, parameter, variance) ==
        [tuner EXCEPT
           !.last_parameter_values =
              [p \in DOMAIN @ \cup DOMAIN parameter |->
                 IF p \in DOMAIN parameter THEN parameter[p] ELSE @[p]],
           !.last_parameter_covariances =
              [p \in DOMAIN @ \cup DOMAIN variance |->
                 IF p \in DOMAIN variance THEN variance[p] ELSE @[p]]]
      first == record([par_tuner EXCEPT !.last_voltage = Some(voltages),
                                        !.last_voltage_appended = FALSE],
                      cheap, cheap_var)
      untuned == AnyBelow(par_tuner, cheap, "minimum")
      escalate == untuned /\ AnyBelow(par_tuner, cheap, "cost_threshold")
      second == IF escalate THEN record(first, expensive, expensive_var)
                ELSE first
      current_parameter == IF escalate THEN expensive ELSE cheap
      variances == IF escalate THEN expensive_var ELSE cheap_var
  IN IF ~(par_tuner.gates \subseteq Index(voltages))
       THEN \* voltages[self._gates] raises KeyError, after the cheap
            \* evaluation and before anything is assigned
            [tuner |-> par_tuner, result |-> FALSE, raised |-> "KeyError",
             evaluated |-> <<"cheap">>, updated |-> FALSE]
     ELSE IF untuned
       THEN [tuner |->
               [second EXCEPT
                  !.solver = update_after_step(@,
                                Select(voltages, par_tuner.gates),
                                current_parameter, variances)],
             result |-> FALSE,
             raised |-> "",
             evaluated |-> IF escalate THEN <<"cheap", "expensive">>
                           ELSE <<"cheap">>,
             updated |-> TRUE]
       ELSE [tuner |-> [first EXCEPT !.tuned_voltages = Append(@, voltages),
                                     !.last_voltage_appended = TRUE],
             result |-> TRUE,
             raised |-> "",
             evaluated |-> <<"cheap">>,
             updated |-> FALSE]

\* SensingDotTuner.get_next_voltages() with the step the solver suggests.
SensingDotTuner_get_next_voltages(par_tuner, solver_step) ==
  [tuner |-> par_tuner,
   result |-> Add(The(par_tuner.last_voltage), solver_step),
   raised |-> ""]

\* ------------------------------------------------------------- Autotuner

VARIABLES
  experiment,            \* the gate voltages of the experiment
  tuning_hierarchy,      \* Autotuner._tuning_hierarchy
  current_tuner_index,   \* Autotuner._current_tuner_index
  current_tuner_status,  \* Autotuner._current_tuner_status
  voltage_to_set,        \* Autotuner._voltage_to_set (None or a series)
  hdf5_storage_path,     \* Autotuner._hdf5_storage_path (None or a path)
  arguments,             \* the arguments Autotuner.__init__ was given
  call,                  \* what the last iterate() call did
  calls,                 \* how each iterate() call so far ended, in order
  in_flight,             \* the writes handed to the writer and not yet done
  written,               \* the last write the writer has done (None or one)
  built,                 \* the last tuner construction tried (None or one)
  alone,                 \* a tuner asked directly, with the last answer (None or one)
  diagram                \* a charge diagram, with its last operation (None or one)

vars == <<experiment, tuning_hierarchy, current_tuner_index,
          current_tuner_status, voltage_to_set, hdf5_storage_path, arguments,
          call, calls,
          in_flight, written, built, alone, diagram>>

\* Experiment.read_gate_voltages()
read_gate_voltages == experiment

\* Experiment.set_gate_voltages(new_gate_voltages)
set_gate_voltages(new_gate_voltages) ==
  [g \in Index(experiment) |->
     IF g \in Index(new_gate_voltages) THEN new_gate_voltages[g]
     ELSE experiment[g]]

\* Autotuner.is_tuning_complete()
is_tuning_complete == current_tuner_index = Len(tuning_hierarchy)

\* Autotuner.get_current_tuner()
get_current_tuner == tuning_hierarchy[current_tuner_index + 1]

\* One logged inconsistency of ready_to_tune: the tuner number (0-based), the
\* field it is about and the set that is logged with it.
Error(tuner_number, field, logged) ==
  [tuner_number |-> tuner_number, field |-> field, logged |-> logged]

\* The loop of ready_to_tune over the gradient estimators of one tuner, from
\* estimator i on.  acc is the verdict so far.
RECURSIVE check_gradient_estimators(_, _, _, _, _)
check_gradient_estimators(par_tuner, tuner_number, all_gates, i, acc) ==
  IF acc.raised /= "" \/ i > Len(par_tuner.solver.gradient_estimators)
    THEN acc
    ELSE
      LET position == par_tuner.solver.gradient_estimators[i].current_position
          known ==
            IF position /= None /\ ~(Index(The(position)) \subseteq all_gates)
              THEN \* the set logged is the set of the position's values
                   \* less all_gates, which holds no gate name
                   [acc EXCEPT
                      !.naming_coherent = FALSE,
                      !.errors = @ \cup {Error(tuner_number,
                                    "gradient_estimator.current_position", {})}]
              ELSE acc
          tunable ==
            IF par_tuner.cls /= "SubsetTuner"
              THEN known
            ELSE IF position = None
              THEN \* None has no attribute index
                   [known EXCEPT !.raised = "AttributeError"]
            ELSE IF ~(par_tuner.gates \subseteq Index(The(position)))
              THEN [known EXCEPT
                      !.naming_coherent = FALSE,
                      !.errors = @ \cup {Error(tuner_number, "tunable_gates",
                                    par_tuner.gates \ Index(The(position)))}]
            ELSE known
      IN check_gradient_estimators(par_tuner, tuner_number, all_gates,
                                   i + 1, tunable)

\* check_par_tuner without the check of the solver's current position.
check_par_tuner_unchecked_position(par_tuner, tuner_number, all_gates, acc) ==
  LET last ==
        IF par_tuner.last_voltage /= None
           /\ ~(Index(The(par_tuner.last_voltage)) \subseteq all_gates)
          THEN [acc EXCEPT
                  !.naming_coherent = FALSE,
                  !.errors = @ \cup {Error(tuner_number, "last_voltage",
                                Index(The(par_tuner.last_voltage)) \ all_gates)}]
          ELSE acc
  IN IF par_tuner.solver.cls = "NewtonSolver"
       THEN check_gradient_estimators(par_tuner, tuner_number, all_gates, 1,
                                      last)
       ELSE last

\* The body of the loop of ready_to_tune for one tuner.
check_par_tuner(par_tuner, tuner_number, all_gates, acc) ==
  LET last ==
        IF par_tuner.last_voltage /= None
           /\ ~(Index(The(par_tuner.last_voltage)) \subseteq all_gates)
          THEN [acc EXCEPT
                  !.naming_coherent = FALSE,
                  !.errors = @ \cup {Error(tuner_number, "last_voltage",
                                Index(The(par_tuner.last_voltage)) \ all_gates)}]
          ELSE acc
      position ==
        IF ~(Index(par_tuner.solver.current_position) \subseteq all_gates)
          THEN [last EXCEPT
                  !.naming_coherent = FALSE,
                  !.errors = @ \cup {Error(tuner_number, "solver.current_position",
                                Index(par_tuner.solver.current_position) \ all_gates)}]
          ELSE last
  IN IF par_tuner.solver.cls = "NewtonSolver"
       THEN check_gradient_estimators(par_tuner, tuner_number, all_gates, 1,
                                      position)
       ELSE position

\* The loop of ready_to_tune over the hierarchy, from tuner k (1-based) on.
RECURSIVE check_hierarchy(_, _, _, _)
check_hierarchy(hierarchy, all_gates, k, acc) ==
  IF acc.raised /= "" \/ k > Len(hierarchy)
    THEN acc
    ELSE check_hierarchy(hierarchy, all_gates, k + 1,
                         check_par_tuner(hierarchy[k], k - 1, all_gates, acc))

\* ready_to_tune returning True without a check.
ready_to_tune_unchecked ==
  [raised |-> "", naming_coherent |-> TRUE, errors |-> {}]

\* Autotuner.ready_to_tune(): what it returns (naming_coherent) and logs
\* (errors), or the exception it raises (raised, "" when it returns).
ready_to_tune ==
  LET all_gates == Index(read_gate_voltages)
      start == [raised |-> "", naming_coherent |-> TRUE, errors |-> {}]
  IN IF voltage_to_set /= None
        /\ ~(Index(The(voltage_to_set)) \subseteq all_gates)
       THEN [start EXCEPT !.raised = "AssertionError"]
       ELSE check_hierarchy(tuning_hierarchy, all_gates, 1, start)

\* ------------------------------------------------------------ construction

\* The parameters attribute of an Evaluator: the names it returns, in order.
EvaluatorParameters ==
  {<<ParameterName(1)>>, <<ParameterName(2)>>,
   <<ParameterName(1), ParameterName(2)>>}

\* The lists of evaluators a tuner can be given.
EvaluatorLists ==
  UNION {[1 .. n -> EvaluatorParameters] : n \in 0 .. MaxEvaluators}

\* The index of a solver's target.
TargetIndexes ==
  {{ParameterName(1)}, {ParameterName(2)}, {ParameterName(1), ParameterName(2)}}

\* [parameter for evaluator in evaluators for parameter in evaluator.parameters]
RECURSIVE AllParameters(_)
AllParameters(evaluators) ==
  IF evaluators = <<>> THEN <<>>
  ELSE Head(evaluators) \o AllParameters(Tail(evaluators))

\* len(parameters) != len(set(parameters))
HasDuplicates(parameters) ==
  Len(parameters) /= Cardinality({parameters[i] : i \in DOMAIN parameters})

\* ParameterTuner.__init__(evaluators, solver, last_parameter_values=...):
\* the exception it raises ("" when it returns) and the fields of the tuner
\* that depend on the evaluators.
ParameterTuner_init(evaluators, target_index, last_parameter_values) ==
  LET parameters == AllParameters(evaluators)
  IN [raised |->
        IF HasDuplicates(parameters) THEN "ValueError"
        ELSE IF target_index /= {parameters[i] : i \in DOMAIN parameters}
          THEN "AssertionError"
        ELSE "",
      evaluators |-> evaluators,
      target |-> target_index,
      last_parameter_values |->
        IF last_parameter_values = None THEN target_index
        ELSE The(last_parameter_values)]

\* SubsetTuner.__init__(evaluators, gates, solver=...)
SubsetTuner_init(evaluators, target_index) ==
  [cls |-> "SubsetTuner", expensive_evaluators |-> <<>>]
    @@ ParameterTuner_init(evaluators, target_index, None)

\* SensingDotTuner.__init__(cheap_evaluators, expensive_evaluators, gates,
\* solver=...): the last parameter values are indexed by the names of the
\* cheap and the expensive evaluators, and the cheap evaluators are the ones
\* handed to ParameterTuner.__init__.
SensingDotTuner_init(cheap_evaluators, expensive_evaluators, target_index) ==
  LET parameter_names == AllParameters(cheap_evaluators \o expensive_evaluators)
  IN [cls |-> "SensingDotTuner", expensive_evaluators |-> expensive_evaluators]
       @@ ParameterTuner_init(cheap_evaluators, target_index,
            Some({parameter_names[i] : i \in DOMAIN parameter_names}))

\* The target of tuner number k (1-based): a SubsetTuner tunes its parameter
\* to desired 0 within tolerance 1, a SensingDotTuner keeps its parameter
\* above minimum 1 and runs the expensive evaluators at or below 0.
Target(cls, k) ==
  [p \in {ParameterName(k)} |->
     IF cls = "SubsetTuner"
       THEN [desired |-> Some(0), tolerance |-> Some(1),
             minimum |-> None, cost_threshold |-> None]
       ELSE [desired |-> None, tolerance |-> None,
             minimum |-> Some(1), cost_threshold |-> Some(0)]]

\* The series over gs with every entry 0.
Zeros(gs) == [g \in gs |-> 0]

\* What a tuner is built from: its class, the parameter of its solver's
\* target (its own, or the one of the first tuner), its gates, the class of
\* its solver, the gates of the solver's and of its gradient estimator's
\* operating point (None: no point recorded) and the gates of the
\* last_voltage argument (None: not given).
TunerConfigs ==
  [cls : {"SubsetTuner", "SensingDotTuner"},
   parameter : {"own", "first"},
   gates : {{"BA"}, {"BA", UnknownGate}},
   solver_cls : {"NewtonSolver", "Solver"},
   position : {{"BA"}, {"BA", "BB"}, {"BA", UnknownGate}},
   estimator : {Some({"BA"}), None, Some({"BB"}), Some({"BA", UnknownGate})},
   last_voltage : {None, Some({"BB"}), Some({"BA", UnknownGate})}]

\* The plain configuration: a SubsetTuner on one gate BA, with a NewtonSolver
\* whose estimator has recorded a point on BA, and no last_voltage given.
PlainTuner ==
  [cls |-> "SubsetTuner", parameter |-> "own", gates |-> {"BA"},
   solver_cls |-> "NewtonSolver",
   position |-> {"BA"}, estimator |-> Some({"BA"}), last_voltage |-> None]

\* The number of fields in which a configuration departs from the plain one.
Departures(config) ==
  Cardinality({f \in DOMAIN PlainTuner : config[f] /= PlainTuner[f]})

\* The sequences of n configurations with at most budget departures in all.
RECURSIVE Hierarchies(_, _)
Hierarchies(n, budget) ==
  IF n = 0
    THEN {<<>>}
    ELSE UNION {{Append(h, c) : h \in Hierarchies(n - 1, budget - Departures(c))} :
                  c \in {c \in TunerConfigs : Departures(c) <= budget}}

\* The sum of the departures of a sequence of configurations.
RECURSIVE SumDepartures(_)
SumDepartures(configs) ==
  IF configs = <<>> THEN 0
  ELSE Departures(Head(configs)) + SumDepartures(Tail(configs))

\* ParameterTuner.__init__ (and the __init__ of the two subclasses) for tuner
\* number k (1-based), followed by the loop of Autotuner.__init__ that gives
\* a tuner without last voltages the voltages read from the experiment.
NewTuner(config, k, gate_voltages) ==
  LET n == IF config.parameter = "own" THEN k ELSE 1
  IN
  [cls |-> config.cls,
   gates |-> config.gates,
   solver |->
     [cls |-> config.solver_cls,
      target |-> Target(config.cls, n),
      current_position |-> Zeros(config.position),
      current_values |-> [p \in {ParameterName(n)} |-> None],
      gradient_estimators |->
        IF config.solver_cls = "NewtonSolver"
          THEN <<[current_position |->
                    IF config.estimator = None THEN None
                    ELSE Some(Zeros(The(config.estimator)))]>>
          ELSE <<>>],
   tuned_voltages |-> <<>>,
   last_voltage_appended |-> FALSE,
   last_voltage |->
     IF config.last_voltage = None THEN Some(gate_voltages)
     ELSE Some(Zeros(The(config.last_voltage))),
   last_parameter_values |-> [p \in {ParameterName(n)} |-> None],
   last_parameter_covariances |-> [p \in {ParameterName(n)} |-> None]]

\* time_string(): the time of the call, as the name of a directory.
time_string == "time"

\* os.path.join(path, name); a path is the sequence of its components.
join(path, name) == Append(path, name)

\* The storage path Autotuner.__init__ keeps: none when none (or an empty one)
\* is given, the given one with the time of construction appended unless
\* append_time_to_path is False.
StoragePath(path, append_time_to_path) ==
  IF path = None THEN None
  ELSE IF append_time_to_path THEN Some(join(The(path), time_string))
  ELSE path

\* The arguments current_tuner_index, current_tuner_status, voltage_to_set,
\* hdf5_storage_path and append_time_to_path of Autotuner.__init__ for a
\* hierarchy of n tuners.
AutotunerArguments(n) ==
  [index : 0 .. n,
   status : BOOLEAN,
   voltage_to_set : {None} \cup {Some([g \in gs |-> 1]) :
                       gs \in {{"BA"}, {"BA", UnknownGate}}},
   path : {Some(<<"path">>), None},
   append_time_to_path : BOOLEAN]

\* The arguments left at their defaults (with a storage path given).
DefaultArguments ==
  [index |-> 0, status |-> FALSE, voltage_to_set |-> None,
   path |-> Some(<<"path">>), append_time_to_path |-> TRUE]

ArgumentDepartures(given) ==
  Cardinality({f \in DOMAIN DefaultArguments : given[f] /= DefaultArguments[f]})

\* Autotuner.__init__
Init ==
  \E n \in 1 .. MaxStages :
    \E configs \in Hierarchies(n, MaxDepartures) :
      \E given \in AutotunerArguments(n) :
        /\ SumDepartures(configs) + ArgumentDepartures(given) <= MaxDepartures
        /\ arguments = given
        /\ experiment = Zeros(ExperimentGates)
        /\ tuning_hierarchy =
             [k \in 1 .. n |-> NewTuner(configs[k], k, Zeros(ExperimentGates))]
        /\ current_tuner_index = given.index
        /\ current_tuner_status = given.status
        /\ voltage_to_set = given.voltage_to_set
        /\ hdf5_storage_path =
             StoragePath(given.path, given.append_time_to_path)
        /\ call = [outcome |-> "none",
                   before |-> [current_tuner_index |-> given.index,
                               current_tuner_status |-> given.status,
                               voltage_to_set |-> given.voltage_to_set],
                   ready |-> [raised |-> "", naming_coherent |-> TRUE,
                              errors |-> {}],
                   is_tuned |-> <<>>, get_next_voltages |-> <<>>,
                   evaluate |-> <<>>, update_after_step |-> <<>>,
                   set_gate_voltages |-> <<>>, save |-> <<>>]
        /\ calls = <<>>
        /\ in_flight = <<>>
        /\ written = None
        /\ built = None
        /\ alone = None
        /\ diagram = None

\* ---------------------------------------------------------------- iterate

\* The samples the evaluators of tuner number k (1-based) can return, and
\* their variances.
Samples(k) ==
  [DOMAIN target(tuning_hierarchy[k]) -> {Some(v) : v \in Parameters}]

Variances(k) == [DOMAIN target(tuning_hierarchy[k]) -> {Some(0)}]

\* par_tuner.is_tuned(voltages), by the class of the tuner.
is_tuned(par_tuner, voltages, cheap, cheap_var, expensive, expensive_var) ==
  IF par_tuner.cls = "SubsetTuner"
    THEN SubsetTuner_is_tuned(par_tuner, voltages, cheap, cheap_var)
    ELSE SensingDotTuner_is_tuned(par_tuner, voltages, cheap, cheap_var,
                                  expensive, expensive_var)

\* par_tuner.get_next_voltages(), by the class of the tuner.
get_next_voltages(par_tuner, suggestion, shared) ==
  IF par_tuner.cls = "SubsetTuner"
    THEN SubsetTuner_get_next_voltages(par_tuner, suggestion, shared)
    ELSE SensingDotTuner_get_next_voltages(par_tuner, suggestion)

\* What is handed to the writer by save_current_status: the autotuner as it
\* is when the call is made.
Autotuner(index, status, to_set, hierarchy) ==
  [current_tuner_index |-> index, current_tuner_status |-> status,
   voltage_to_set |-> to_set, tuning_hierarchy |-> hierarchy]

\* save_current_status writing whether or not a storage path is set.
save_current_status_unconditional(autotuner) == <<autotuner>>

\* Autotuner.save_current_status(): the writes dispatched, none without a
\* storage path.
save_current_status(autotuner) ==
  IF hdf5_storage_path /= None THEN <<autotuner>> ELSE <<>>

\* One iterate() call is recorded: in call, how it ended, the state it
\* started from, what ready_to_tune gave, and the calls it made, in order
\* (is_tuned, get_next_voltages, evaluator runs, update_after_step,
\* set_gate_voltages, writes of the state); in calls, how it ended, the index
\* it started from and whether the tuner was found tuned.
Call(outcome, tuned_calls, next_calls, evaluations, updates, settings, writes) ==
  /\ call' =
       [outcome |-> outcome,
        before |-> [current_tuner_index |-> current_tuner_index,
                    current_tuner_status |-> current_tuner_status,
                    voltage_to_set |-> voltage_to_set],
        ready |-> ready_to_tune,
        is_tuned |-> tuned_calls,
        get_next_voltages |-> next_calls,
        evaluate |-> evaluations,
        update_after_step |-> updates,
        set_gate_voltages |-> settings,
        save |-> writes]
  /\ calls' = Append(calls,
       [outcome |-> outcome,
        tuner |-> current_tuner_index,
        tuned |-> \E i \in DOMAIN tuned_calls : tuned_calls[i].result])

\* The state of the autotuner and of the experiment is left as it is.
Unchanged ==
  UNCHANGED <<experiment, tuning_hierarchy, current_tuner_index,
              current_tuner_status, voltage_to_set, hdf5_storage_path,
              arguments>>

\* Refusal with the completion looked at before ready_to_tune().
Refusal_complete_first ==
  LET ready == ready_to_tune
  IN IF is_tuning_complete THEN "RuntimeError: already complete"
     ELSE IF ready.raised /= "" THEN ready.raised
     ELSE IF ~ready.naming_coherent THEN "RuntimeError: setup incomplete"
     ELSE ""

\* The two checks iterate() starts with: the exception it raises there, ""
\* when it goes on.
Refusal ==
  LET ready == ready_to_tune
  IN IF ready.raised /= "" THEN ready.raised
     ELSE IF ~ready.naming_coherent THEN "RuntimeError: setup incomplete"
     ELSE IF is_tuning_complete THEN "RuntimeError: already complete"
     ELSE ""

\* Branch with the status looked at before the pending voltages.
Branch_status_first ==
  IF current_tuner_status THEN "PROPOSE"
  ELSE IF voltage_to_set /= None THEN "APPLY_VOLTAGE"
  ELSE "DECIDE"

\* The branch iterate() takes after its checks.
Branch ==
  IF voltage_to_set /= None THEN "APPLY_VOLTAGE"
  ELSE IF ~current_tuner_status THEN "DECIDE"
  ELSE "PROPOSE"

\* iterate() goes on to the given branch.
Takes(branch) ==
  /\ Len(calls) < MaxCalls
  /\ Refusal = ""
  /\ Branch = branch

\* iterate(): ready_to_tune() raises.
IterateCheckRaises ==
  /\ Len(calls) < MaxCalls
  /\ Refusal \in {"AssertionError", "AttributeError"}
  /\ Call(Refusal, <<>>, <<>>, <<>>, <<>>, <<>>, <<>>)
  /\ Unchanged

\* iterate(): ready_to_tune() returns False.
IterateNotReady ==
  /\ Len(calls) < MaxCalls
  /\ Refusal = "RuntimeError: setup incomplete"
  /\ Call(Refusal, <<>>, <<>>, <<>>, <<>>, <<>>, <<>>)
  /\ Unchanged

\* IterateComplete with the state written before the exception is raised.
IterateComplete_saves ==
  /\ Len(calls) < MaxCalls
  /\ Refusal = "RuntimeError: already complete"
  /\ Call(Refusal, <<>>, <<>>, <<>>, <<>>, <<>>,
          <<Autotuner(current_tuner_index, current_tuner_status,
                      voltage_to_set, tuning_hierarchy)>>)
  /\ Unchanged

\* iterate(): the tuning is already complete.
IterateComplete ==
  /\ Len(calls) < MaxCalls
  /\ Refusal = "RuntimeError: already complete"
  /\ Call(Refusal, <<>>, <<>>, <<>>, <<>>, <<>>, <<>>)
  /\ Unchanged

\* The first tuner's last voltages hold every gate of voltage_to_set, so that
\* the change logged before the voltages are set can be computed
\* (a list of labels of which one is missing raises KeyError).
ChangeCanBeLogged ==
  Index(The(voltage_to_set)) \subseteq Index(The(tuning_hierarchy[1].last_voltage))

\* iterate(): voltages are pending, and computing the change to log raises.
IterateLogRaises ==
  /\ Takes("APPLY_VOLTAGE")
  /\ ~ChangeCanBeLogged
  /\ Call("KeyError", <<>>, <<>>, <<>>, <<>>, <<>>, <<>>)
  /\ Unchanged

\* ApplyVoltage with the index left where it is.
ApplyVoltage_keeps_index ==
  [set_gate_voltages |-> <<The(voltage_to_set)>>,
   current_tuner_index |-> current_tuner_index,
   current_tuner_status |-> current_tuner_status,
   voltage_to_set |-> None]

\* The first branch of iterate(): what is set, and the autotuner after it.
ApplyVoltage ==
  [set_gate_voltages |-> <<The(voltage_to_set)>>,
   current_tuner_index |-> 0,
   current_tuner_status |-> current_tuner_status,
   voltage_to_set |-> None]

\* iterate(): the pending voltages are set.
IterateApplyVoltage ==
  /\ Takes("APPLY_VOLTAGE")
  /\ ChangeCanBeLogged
  /\ experiment' = set_gate_voltages(ApplyVoltage.set_gate_voltages[1])
  /\ current_tuner_index' = ApplyVoltage.current_tuner_index
  /\ current_tuner_status' = ApplyVoltage.current_tuner_status
  /\ voltage_to_set' = ApplyVoltage.voltage_to_set
  /\ UNCHANGED <<tuning_hierarchy, hdf5_storage_path, arguments>>
  /\ Call("APPLY_VOLTAGE", <<>>, <<>>, <<>>, <<>>,
          ApplyVoltage.set_gate_voltages,
          save_current_status(Autotuner(ApplyVoltage.current_tuner_index,
                                        ApplyVoltage.current_tuner_status,
                                        ApplyVoltage.voltage_to_set,
                                        tuning_hierarchy)))

\* Decide with the index left where it is when the tuner is tuned.
Decide_stays(tuned) ==
  [current_tuner_index |-> current_tuner_index,
   current_tuner_status |-> IF tuned THEN current_tuner_status ELSE TRUE]

\* Decide with the status set whatever is_tuned returned.
Decide_flags(tuned) ==
  [current_tuner_index |->
     IF tuned THEN current_tuner_index + 1 ELSE current_tuner_index,
   current_tuner_status |-> TRUE]

\* The second branch of iterate(): the index and the status after is_tuned
\* returned tuned.
Decide(tuned) ==
  [current_tuner_index |->
     IF tuned THEN current_tuner_index + 1 ELSE current_tuner_index,
   current_tuner_status |-> IF tuned THEN current_tuner_status ELSE TRUE]

\* iterate(): the current tuner is asked whether it is tuned.
IterateDecide ==
  /\ Takes("DECIDE")
  /\ \E cheap \in Samples(current_tuner_index + 1),
        expensive \in Samples(current_tuner_index + 1),
        variance \in Variances(current_tuner_index + 1) :
       LET voltages == read_gate_voltages
           answer == is_tuned(get_current_tuner, voltages, cheap, variance,
                              expensive, variance)
           hierarchy == [tuning_hierarchy EXCEPT
                           ![current_tuner_index + 1] = answer.tuner]
           after == Decide(answer.result)
       IN /\ answer.raised = ""
          /\ Len(answer.evaluated) = 1 => expensive = cheap
          /\ tuning_hierarchy' = hierarchy
          /\ current_tuner_index' = after.current_tuner_index
          /\ current_tuner_status' = after.current_tuner_status
          /\ UNCHANGED <<experiment, voltage_to_set, hdf5_storage_path, arguments>>
          /\ Call("DECIDE",
                  <<[tuner |-> current_tuner_index, voltages |-> voltages,
                     result |-> answer.result]>>,
                  <<>>,
                  [i \in DOMAIN answer.evaluated |->
                     [tuner |-> current_tuner_index,
                      evaluators |-> answer.evaluated[i]]],
                  IF answer.updated THEN <<current_tuner_index>> ELSE <<>>,
                  <<>>,
                  save_current_status(Autotuner(after.current_tuner_index,
                                                after.current_tuner_status,
                                                voltage_to_set, hierarchy)))

\* iterate(): the current tuner is asked whether it is tuned, and is_tuned
\* raises.
IterateDecideRaises ==
  /\ Takes("DECIDE")
  /\ \E cheap \in Samples(current_tuner_index + 1),
        variance \in Variances(current_tuner_index + 1) :
       LET answer == is_tuned(get_current_tuner, read_gate_voltages, cheap,
                              variance, cheap, variance)
       IN /\ answer.raised /= ""
          /\ Call(answer.raised, <<>>, <<>>,
                  [i \in DOMAIN answer.evaluated |->
                     [tuner |-> current_tuner_index,
                      evaluators |-> answer.evaluated[i]]],
                  <<>>, <<>>, <<>>)
  /\ Unchanged

\* Propose with the status left set.
Propose_keeps_status(next) ==
  [current_tuner_index |-> current_tuner_index,
   current_tuner_status |-> current_tuner_status,
   voltage_to_set |-> Some(next)]

\* The third branch of iterate(): the autotuner after get_next_voltages
\* returned next.
Propose(next) ==
  [current_tuner_index |-> current_tuner_index,
   current_tuner_status |-> FALSE,
   voltage_to_set |-> Some(next)]

\* iterate(): the current tuner is asked for the next voltages.  The solver
\* suggests a position that keeps the voltages in range.
IteratePropose ==
  /\ Takes("PROPOSE")
  /\ \E suggestion \in suggest_next_position(get_current_tuner.solver),
        shared \in BOOLEAN :
       LET answer == get_next_voltages(get_current_tuner, suggestion, shared)
           hierarchy == [tuning_hierarchy EXCEPT
                           ![current_tuner_index + 1] = answer.tuner]
           after == Propose(answer.result)
       IN /\ answer.raised = ""
          /\ \A g \in Index(answer.result) : answer.result[g] \in Voltages
          /\ tuning_hierarchy' = hierarchy
          /\ current_tuner_index' = after.current_tuner_index
          /\ current_tuner_status' = after.current_tuner_status
          /\ voltage_to_set' = after.voltage_to_set
          /\ UNCHANGED <<experiment, hdf5_storage_path, arguments>>
          /\ Call("PROPOSE", <<>>,
                  <<[tuner |-> current_tuner_index, result |-> answer.result]>>,
                  <<>>, <<>>, <<>>,
                  save_current_status(Autotuner(after.current_tuner_index,
                                                after.current_tuner_status,
                                                after.voltage_to_set,
                                                hierarchy)))

\* iterate(): the current tuner is asked for the next voltages, and
\* get_next_voltages raises.
IterateProposeRaises ==
  /\ Takes("PROPOSE")
  /\ \E suggestion \in suggest_next_position(get_current_tuner.solver) :
       LET answer == get_next_voltages(get_current_tuner, suggestion, FALSE)
       IN /\ answer.raised /= ""
          /\ Call(answer.raised, <<>>, <<>>, <<>>, <<>>, <<>>, <<>>)
  /\ Unchanged

\* The writer's queue is not followed.
WriterIdle == UNCHANGED <<in_flight, written, built, alone, diagram>>

\* The caller alone: the writes it hands over are in call.save, and what the
\* writer does with them is not followed.
Next ==
  \/ IterateCheckRaises /\ WriterIdle
  \/ IterateNotReady /\ WriterIdle
  \/ IterateComplete /\ WriterIdle
  \/ IterateLogRaises /\ WriterIdle
  \/ IterateApplyVoltage /\ WriterIdle
  \/ IterateDecide /\ WriterIdle
  \/ IterateDecideRaises /\ WriterIdle
  \/ IteratePropose /\ WriterIdle
  \/ IterateProposeRaises /\ WriterIdle

Spec == Init /\ [][Next]_vars

\* ------------------------------------------------------------- the writer

\* AsynchronousHDF5Writer.write(self, ...): the autotuner object is put in the
\* writer's queue; dispatched is the state it is in at this moment.
Dispatch ==
  /\ in_flight' = in_flight \o [i \in DOMAIN call'.save |->
                                  [dispatched |-> call'.save[i]]]
  /\ UNCHANGED <<written, built, alone, diagram>>

\* The writer takes the oldest object of its queue and serialises it.  What
\* is in the queue is the autotuner object itself (autotuner.py:133 hands
\* over self, not a copy), so the data serialised is the state the autotuner
\* is in when the writer gets to it.
WriterSerialises ==
  /\ in_flight /= <<>>
  /\ written' = Some([dispatched |-> Head(in_flight).dispatched,
                       data |-> Autotuner(current_tuner_index,
                                          current_tuner_status,
                                          voltage_to_set, tuning_hierarchy)])
  /\ in_flight' = Tail(in_flight)
  /\ UNCHANGED <<experiment, tuning_hierarchy, current_tuner_index,
                 current_tuner_status, voltage_to_set, hdf5_storage_path,
                 arguments, call, calls, built, alone, diagram>>

\* The caller and the writer: the writer works in the background while the
\* caller goes on with the next iterate() call.
NextWriter ==
  \/ IterateCheckRaises /\ Dispatch
  \/ IterateNotReady /\ Dispatch
  \/ IterateComplete /\ Dispatch
  \/ IterateLogRaises /\ Dispatch
  \/ IterateApplyVoltage /\ Dispatch
  \/ IterateDecide /\ Dispatch
  \/ IterateDecideRaises /\ Dispatch
  \/ IteratePropose /\ Dispatch
  \/ IterateProposeRaises /\ Dispatch
  \/ WriterSerialises

SpecWriter == Init /\ [][NextWriter]_vars

\* ------------------------------------------------------- construction alone

\* A SubsetTuner is constructed.
ConstructSubsetTuner ==
  /\ \E evaluators \in EvaluatorLists, target_index \in TargetIndexes :
       built' = Some(SubsetTuner_init(evaluators, target_index))
  /\ UNCHANGED <<experiment, tuning_hierarchy, current_tuner_index,
                 current_tuner_status, voltage_to_set, hdf5_storage_path,
                 arguments, call, calls, in_flight, written, alone, diagram>>

\* A SensingDotTuner is constructed.
ConstructSensingDotTuner ==
  /\ \E cheap \in EvaluatorLists, expensive \in EvaluatorLists,
        target_index \in TargetIndexes :
       built' = Some(SensingDotTuner_init(cheap, expensive, target_index))
  /\ UNCHANGED <<experiment, tuning_hierarchy, current_tuner_index,
                 current_tuner_status, voltage_to_set, hdf5_storage_path,
                 arguments, call, calls, in_flight, written, alone, diagram>>

\* The construction of tuners, beside an autotuner with one plain tuner.
InitConstruction ==
  /\ Init
  /\ arguments = DefaultArguments
  /\ tuning_hierarchy = <<NewTuner(PlainTuner, 1, Zeros(ExperimentGates))>>

NextConstruction ==
  \/ ConstructSubsetTuner
  \/ ConstructSensingDotTuner

SpecConstruction == InitConstruction /\ [][NextConstruction]_vars

\* ------------------------------------------------------------ a tuner alone

\* The parameters of the target of a tuner asked directly.
AloneParameters == {ParameterName(1), ParameterName(2)}

\* The targets of a tuner asked directly: a SubsetTuner has desired values
\* and tolerances, a SensingDotTuner minima and cost thresholds; each can be
\* missing (NaN).
AloneTargets(cls) ==
  IF cls = "SubsetTuner"
    THEN [AloneParameters ->
            [desired : {None, Some(0), Some(1)},
             tolerance : {None, Some(0), Some(1)},
             minimum : {None}, cost_threshold : {None}]]
    ELSE [AloneParameters ->
            [desired : {None}, tolerance : {None},
             minimum : {None, Some(1)},
             cost_threshold : {None, Some(0), Some(2)}]]

\* The samples the evaluators of a tuner asked directly can return: a value
\* of Parameters or NaN for each parameter.
AloneSamples == [AloneParameters -> {None} \cup {Some(v) : v \in Parameters}]

\* The variances returned with a sample.
AloneVariances == [p \in AloneParameters |-> Some(0)]

\* A tuner of the given class with the given target, constructed with the
\* plain configuration.
AloneTuner(cls, tuner_target) ==
  LET plain == NewTuner([PlainTuner EXCEPT !.cls = cls], 1,
                        Zeros(ExperimentGates))
      nans == [p \in DOMAIN tuner_target |-> None]
  IN [plain EXCEPT
        !.solver.target = tuner_target,
        !.solver.current_values = nans,
        !.last_parameter_values = nans,
        !.last_parameter_covariances = nans]

\* A tuner is constructed to be asked directly.
AloneConstruct ==
  /\ alone = None
  /\ \E cls \in {"SubsetTuner", "SensingDotTuner"} :
       \E tuner_target \in AloneTargets(cls) :
         alone' = Some([tuner |-> AloneTuner(cls, tuner_target),
                        asked |-> 0,
                        answer |-> None,
                        next |-> None])
  /\ UNCHANGED <<experiment, tuning_hierarchy, current_tuner_index,
                 current_tuner_status, voltage_to_set, hdf5_storage_path,
                 arguments, call, calls, in_flight, written, built, diagram>>

\* tuner.is_tuned(voltages) on the tuner asked directly: what it was asked
\* with and what it answered is kept with the tuner as it is afterwards.
AloneIsTuned ==
  /\ alone /= None
  /\ The(alone).asked < MaxAsked
  /\ \E cheap \in AloneSamples, expensive \in AloneSamples :
       LET before == The(alone).tuner
           voltages == read_gate_voltages
           answer == is_tuned(before, voltages, cheap, AloneVariances,
                              expensive, AloneVariances)
       IN /\ ("expensive" \notin {answer.evaluated[i] : i \in DOMAIN answer.evaluated})
               => expensive = cheap
          /\ alone' = Some([tuner |-> answer.tuner,
                            asked |-> The(alone).asked + 1,
                            answer |-> Some([before |-> before,
                                             voltages |-> voltages,
                                             cheap |-> cheap,
                                             expensive |-> expensive,
                                             result |-> answer.result,
                                             evaluated |-> answer.evaluated,
                                             updated |-> answer.updated]),
                            next |-> None])
  /\ UNCHANGED <<experiment, tuning_hierarchy, current_tuner_index,
                 current_tuner_status, voltage_to_set, hdf5_storage_path,
                 arguments, call, calls, in_flight, written, built, diagram>>

\* tuner.get_next_voltages() on the tuner asked directly, once after it was
\* constructed or asked is_tuned: the tuner as it was before and what was
\* returned is kept with the tuner as it is afterwards.
AloneGetNextVoltages ==
  /\ alone /= None
  /\ The(alone).next = None
  /\ \E suggestion \in suggest_next_position(The(alone).tuner.solver),
        shared \in BOOLEAN :
       LET before == The(alone).tuner
           proposal == get_next_voltages(before, suggestion, shared)
       IN /\ proposal.raised = ""
          /\ alone' = Some([The(alone) EXCEPT
                              !.tuner = proposal.tuner,
                              !.next = Some([before |-> before,
                                             result |-> proposal.result])])
  /\ UNCHANGED <<experiment, tuning_hierarchy, current_tuner_index,
                 current_tuner_status, voltage_to_set, hdf5_storage_path,
                 arguments, call, calls, in_flight, written, built, diagram>>

NextTuner ==
  \/ AloneConstruct
  \/ AloneIsTuned
  \/ AloneGetNextVoltages

\* A tuner asked directly, beside an autotuner with one plain tuner.
SpecTuner == InitConstruction /\ [][NextTuner]_vars

\* ------------------------------------------------------------------ properties

\* The last iterate() call returned (it did not raise).
Returned == call.outcome \in {"APPLY_VOLTAGE", "DECIDE", "PROPOSE"}

\* The numbers of set_gate_voltages, is_tuned and get_next_voltages calls the
\* last iterate() call made.
Transitions ==
  <<Len(call.set_gate_voltages), Len(call.is_tuned), Len(call.get_next_voltages)>>

\* C1: an iterate() call that returns did exactly one of the three
\* transitions: it set the pending voltages when there were any (whatever the
\* status was), else it asked is_tuned when the status was clear, else it
\* asked get_next_voltages.
C1_OneTransitionByPriority ==
  Returned =>
    Transitions =
      IF call.before.voltage_to_set /= None THEN <<1, 0, 0>>
      ELSE IF ~call.before.current_tuner_status THEN <<0, 1, 0>>
      ELSE <<0, 0, 1>>

\* C1 witness: a call that started with voltages pending and the status set
\* has set the voltages.
C1_Witness ==
  /\ Returned
  /\ call.before.voltage_to_set /= None
  /\ call.before.current_tuner_status
  /\ Transitions = <<1, 0, 0>>

\* C2: after a call that set the pending voltages, the experiment was given
\* exactly those voltages, the index is 0, nothing is pending and the status
\* is clear.
C2_ApplyClearsIndexPendingAndStatus ==
  Len(call.set_gate_voltages) = 1 =>
    /\ call.set_gate_voltages = <<The(call.before.voltage_to_set)>>
    /\ current_tuner_index = 0
    /\ voltage_to_set = None
    /\ ~current_tuner_status

\* C3: a call that asked is_tuned asked it once, of the tuner at the index
\* the call started from and with the voltages of the experiment; tuned moves
\* the index on by one and leaves the status clear, untuned leaves the index
\* and sets the status; nothing is pending and no voltage was set.
C3_Decide ==
  call.outcome = "DECIDE" =>
    /\ Len(call.is_tuned) = 1
    /\ call.is_tuned[1].tuner = call.before.current_tuner_index
    /\ call.is_tuned[1].voltages = experiment
    /\ \A i \in DOMAIN call.evaluate :
         call.evaluate[i].tuner = call.before.current_tuner_index
    /\ IF call.is_tuned[1].result
         THEN /\ current_tuner_index = call.before.current_tuner_index + 1
              /\ ~current_tuner_status
         ELSE /\ current_tuner_index = call.before.current_tuner_index
              /\ current_tuner_status
    /\ voltage_to_set = None
    /\ call.set_gate_voltages = <<>>
    /\ call.get_next_voltages = <<>>

\* C3 witness: the last tuner of a hierarchy of two was found tuned, which
\* completes the tuning.
C3_Witness ==
  /\ call.outcome = "DECIDE"
  /\ call.is_tuned[1].result
  /\ call.before.current_tuner_index = 1
  /\ is_tuning_complete

\* A call is made in this step.
Called == Len(calls') = Len(calls) + 1

\* The autotuner and the experiment are the same after the step.
Untouched ==
  UNCHANGED <<experiment, tuning_hierarchy, current_tuner_index,
              current_tuner_status, voltage_to_set>>

\* C4: a call that asked get_next_voltages asked the tuner at the index,
\* stored the result as the pending voltages and cleared the status, and left
\* everything else as it was: the index, the experiment (no voltage set), the
\* hierarchy (no evaluation run).
C4_ProposeFrame ==
  [][(Called /\ call'.outcome = "PROPOSE") =>
       /\ Len(call'.get_next_voltages) = 1
       /\ call'.get_next_voltages[1].tuner = current_tuner_index
       /\ voltage_to_set' = Some(call'.get_next_voltages[1].result)
       /\ ~current_tuner_status'
       /\ current_tuner_index' = current_tuner_index
       /\ experiment' = experiment
       /\ call'.set_gate_voltages = <<>>
       /\ call'.evaluate = <<>>
       /\ call'.is_tuned = <<>>
       /\ tuning_hierarchy' = tuning_hierarchy]_vars

\* C5: a call made when the index equals the length of the hierarchy raises
\* and changes nothing: no tuner is asked or evaluated, no voltage is set and
\* no state is written; so the tuning stays complete.
C5_CompleteRefuses ==
  [][(Called /\ is_tuning_complete) =>
       /\ ~Returned'
       /\ Untouched
       /\ call'.is_tuned = <<>>
       /\ call'.get_next_voltages = <<>>
       /\ call'.evaluate = <<>>
       /\ call'.set_gate_voltages = <<>>
       /\ call'.save = <<>>
       /\ is_tuning_complete']_vars

\* C5 witness: the tuning was completed by a call, and the call after it was
\* refused as complete.
C5_Witness ==
  /\ Len(calls) >= 2
  /\ calls[Len(calls) - 1].outcome = "DECIDE"
  /\ call.outcome = "RuntimeError: already complete"
  /\ is_tuning_complete

\* C6: every call evaluates ready_to_tune() on the state it starts from, and
\* when that returns False the call raises the setup error, whatever the
\* index is, and changes nothing: no tuner is asked and no voltage is set.
C6_NotReadyRefuses ==
  [][Called =>
       /\ call'.ready = ready_to_tune
       /\ (ready_to_tune.raised = "" /\ ~ready_to_tune.naming_coherent) =>
            /\ call'.outcome = "RuntimeError: setup incomplete"
            /\ Untouched
            /\ call'.is_tuned = <<>>
            /\ call'.get_next_voltages = <<>>
            /\ call'.evaluate = <<>>
            /\ call'.set_gate_voltages = <<>>]_vars

\* C6 witness: a call on a complete hierarchy that is not ready was refused
\* for the setup.
C6_Witness ==
  /\ call.outcome = "RuntimeError: setup incomplete"
  /\ ~call.ready.naming_coherent
  /\ is_tuning_complete

\* Some SubsetTuner of the hierarchy declares a gate the experiment does not
\* report.
SubsetTunerDeclaresUnknownGate ==
  \E k \in DOMAIN tuning_hierarchy :
    /\ tuning_hierarchy[k].cls = "SubsetTuner"
    /\ ~(tuning_hierarchy[k].gates \subseteq Index(experiment))

\* C7: when a SubsetTuner declares a gate the experiment does not report,
\* ready_to_tune() returns False (it neither raises nor returns True) and a
\* call of iterate() is refused for the setup.
C7_UnknownSubsetGateIsRefused ==
  SubsetTunerDeclaresUnknownGate =>
    /\ ready_to_tune.raised = ""
    /\ ~ready_to_tune.naming_coherent
    /\ call.outcome \in {"none", "RuntimeError: setup incomplete"}

\* The fields of tuner k (1-based) that hold a gate name the experiment does
\* not report: its last voltages, its solver's current position, a gradient
\* estimator's recorded position.
UnknownNames(k) ==
  LET par_tuner == tuning_hierarchy[k]
      estimators == par_tuner.solver.gradient_estimators
  IN {f \in {"last_voltage"} :
        /\ par_tuner.last_voltage /= None
        /\ ~(Index(The(par_tuner.last_voltage)) \subseteq Index(experiment))}
     \cup
     {f \in {"solver.current_position"} :
        ~(Index(par_tuner.solver.current_position) \subseteq Index(experiment))}
     \cup
     {f \in {"gradient_estimator.current_position"} :
        \E i \in DOMAIN estimators :
          /\ estimators[i].current_position /= None
          /\ ~(Index(The(estimators[i].current_position)) \subseteq Index(experiment))}

\* Every gate name in the three fields of every tuner is reported by the
\* experiment.
AllNamesKnown == \A k \in DOMAIN tuning_hierarchy : UnknownNames(k) = {}

\* An error is logged for every tuner and field with an unknown name.
AllUnknownNamesLogged(errors) ==
  \A k \in DOMAIN tuning_hierarchy :
    \A f \in UnknownNames(k) :
      \E e \in errors : e.tuner_number = k - 1 /\ e.field = f

SubsetGatesRecorded ==
  \A k \in DOMAIN tuning_hierarchy :
    LET par_tuner == tuning_hierarchy[k]
        estimators == par_tuner.solver.gradient_estimators
    IN (par_tuner.cls = "SubsetTuner" /\ par_tuner.solver.cls = "NewtonSolver") =>
         \A i \in DOMAIN estimators :
           /\ estimators[i].current_position /= None
           /\ par_tuner.gates \subseteq Index(The(estimators[i].current_position))

\* The pending voltages, if any, name only gates the experiment reports.
PendingKnown ==
  voltage_to_set /= None => Index(The(voltage_to_set)) \subseteq Index(experiment)

C9_OnlyKnownGatesAreSet ==
  \A i \in DOMAIN call.set_gate_voltages :
    Index(call.set_gate_voltages[i]) \subseteq Index(experiment)

\* C9 witness: voltages naming an unknown gate are pending and the call made
\* with them was refused without setting anything.
C9_Witness ==
  /\ voltage_to_set /= None
  /\ UnknownGate \in Index(The(voltage_to_set))
  /\ call.outcome = "AssertionError"
  /\ call.set_gate_voltages = <<>>

\* The autotuner was built with the default index, status and pending
\* voltages.
DefaultStart ==
  /\ arguments.index = 0
  /\ ~arguments.status
  /\ arguments.voltage_to_set = None

\* No is_tuned call so far returned False or raised.
AlwaysTuned ==
  \A i \in DOMAIN calls :
    /\ calls[i].outcome = "DECIDE" => calls[i].tuned
    /\ calls[i].outcome /= "KeyError"

\* C10: with the default start, a hierarchy of N tuners that is ready and
\* whose is_tuned has always returned True has asked is_tuned of the tuners
\* 0, 1, ..., N-1 in its first N calls and done nothing else in them, and the
\* tuning is complete exactly from the N-th call on.
C10_AllTunedCompletesInNCalls ==
  (DefaultStart /\ AlwaysTuned
   /\ ready_to_tune.raised = "" /\ ready_to_tune.naming_coherent) =>
    /\ \A i \in DOMAIN calls :
         i <= Len(tuning_hierarchy) =>
           calls[i] = [outcome |-> "DECIDE", tuner |-> i - 1, tuned |-> TRUE]
    /\ is_tuning_complete <=> Len(calls) >= Len(tuning_hierarchy)

\* C10 witness: two SubsetTuner stages, both found tuned, complete the tuning
\* in two calls.
C10_Witness ==
  /\ DefaultStart
  /\ Len(tuning_hierarchy) = 2
  /\ \A k \in DOMAIN tuning_hierarchy : tuning_hierarchy[k].cls = "SubsetTuner"
  /\ calls = <<[outcome |-> "DECIDE", tuner |-> 0, tuned |-> TRUE],
               [outcome |-> "DECIDE", tuner |-> 1, tuned |-> TRUE]>>
  /\ is_tuning_complete

\* A logged call returned.
IsReturned(c) == c.outcome \in {"APPLY_VOLTAGE", "DECIDE", "PROPOSE"}

\* The calls so far that returned, in order.
ReturnedCalls == SelectSeq(calls, IsReturned)

\* C11: after a DECIDE that found the tuner at index k untuned, the returning
\* calls that follow are, in order, a PROPOSE on the tuner at index k, an
\* APPLY_VOLTAGE (after which the index is 0 and nothing is pending) and a
\* DECIDE on the tuner at index 0.
C11_UntunedThenProposeApplyRestart ==
  LET done == ReturnedCalls
  IN \A i \in DOMAIN done :
       (done[i].outcome = "DECIDE" /\ ~done[i].tuned) =>
         /\ i + 1 <= Len(done) =>
              /\ done[i + 1].outcome = "PROPOSE"
              /\ done[i + 1].tuner = done[i].tuner
         /\ i + 2 <= Len(done) =>
              /\ done[i + 2].outcome = "APPLY_VOLTAGE"
              /\ (i + 2 = Len(done) =>
                    current_tuner_index = 0 /\ voltage_to_set = None)
         /\ i + 3 <= Len(done) =>
              /\ done[i + 3].outcome = "DECIDE"
              /\ done[i + 3].tuner = 0

\* C11 witness: the second tuner was found untuned, and the three calls after
\* it proposed on it, set the voltages and asked the first tuner again.
C11_Witness ==
  /\ Len(calls) = 5
  /\ calls[2].outcome = "DECIDE" /\ calls[2].tuner = 1 /\ ~calls[2].tuned
  /\ calls[3].outcome = "PROPOSE" /\ calls[3].tuner = 1
  /\ calls[4].outcome = "APPLY_VOLTAGE"
  /\ calls[5].outcome = "DECIDE" /\ calls[5].tuner = 0

\* The autotuner as it is now.
CurrentAutotuner ==
  Autotuner(current_tuner_index, current_tuner_status, voltage_to_set,
            tuning_hierarchy)

\* C12 as stated: every call, whatever the storage path and whether or not it
\* raised, hands exactly one state to the writer, the state after the call.
C12_EveryCallWritesOnce ==
  call.outcome /= "none" => call.save = <<CurrentAutotuner>>

\* C12 amended: a call that returns, on an autotuner with a storage path,
\* hands exactly one state to the writer, the state after its transition; a
\* call that raises, and every call of an autotuner without storage path,
\* hands none.
C12_ReturningCallWithPathWritesOnce ==
  call.outcome /= "none" =>
    call.save = IF Returned /\ hdf5_storage_path /= None
                  THEN <<CurrentAutotuner>>
                  ELSE <<>>

\* C12 witness: a DECIDE that advanced the index wrote the state with the
\* advanced index.
C12_Witness ==
  /\ call.outcome = "DECIDE"
  /\ current_tuner_index = call.before.current_tuner_index + 1
  /\ Len(call.save) = 1
  /\ call.save[1].current_tuner_index = current_tuner_index
  /\ call.save[1].tuning_hierarchy = tuning_hierarchy

\* The state last handed to the writer: None when nothing was handed.
LastHanded ==
  IF in_flight /= <<>> THEN Some(in_flight[Len(in_flight)].dispatched)
  ELSE IF written /= None THEN Some(The(written).dispatched)
  ELSE None

C14_NoSharedParameter ==
  \A j, k \in DOMAIN tuning_hierarchy :
    j /= k =>
      DOMAIN target(tuning_hierarchy[j]) \cap DOMAIN target(tuning_hierarchy[k]) = {}

\* The names the evaluators of a list return, as a set.
Names(evaluators) ==
  LET parameters == AllParameters(evaluators)
  IN {parameters[i] : i \in DOMAIN parameters}

\* C15: the construction of a tuner fails when a name is returned twice by
\* its evaluators (by the cheap ones, or by the expensive ones) and when the
\* names its evaluators return (the cheap and the expensive ones together)
\* are not exactly the index of the solver's target: a tuner that was
\* constructed has neither.
C15_ConstructionChecksEvaluators ==
  built /= None =>
    LET tuner == The(built)
    IN tuner.raised = ""
          => /\ ~HasDuplicates(AllParameters(tuner.evaluators))
             /\ ~HasDuplicates(AllParameters(tuner.expensive_evaluators))
             /\ Names(tuner.evaluators) \cup Names(tuner.expensive_evaluators)
                  = tuner.target

\* The tuner asked directly is of the given class and has answered.
Answered(cls) ==
  /\ alone /= None
  /\ The(alone).answer /= None
  /\ The(alone).tuner.cls = cls

\* The last answer of the tuner asked directly.
Answer == The(The(alone).answer)

\* C16: SubsetTuner.is_tuned returns True exactly when every parameter of the
\* target has |desired - measured| < tolerance, strictly, where a missing
\* (NaN) tolerance is satisfied by anything and, with a tolerance, a missing
\* (NaN) desired or measured value is not.
C16_TunedIffAllWithinTolerance ==
  Answered("SubsetTuner") =>
    (Answer.result <=>
       \A p \in DOMAIN target(Answer.before) :
         LET row == target(Answer.before)[p]
             measured == Answer.cheap[p]
         IN \/ row.tolerance = None
            \/ /\ row.desired /= None
               /\ measured /= None
               /\ Abs(The(row.desired) - The(measured)) < The(row.tolerance))

\* C17: one SensingDotTuner.is_tuned call runs the cheap evaluators once, and
\* the expensive evaluators once when some parameter of the cheap sample is at
\* or below its cost threshold and not at all otherwise, whatever the sample
\* is relative to the minimum.
C17_ExpensiveIffCostThresholdBreached ==
  Answered("SensingDotTuner") =>
    Answer.evaluated =
      IF AnyBelow(Answer.before, Answer.cheap, "cost_threshold")
        THEN <<"cheap", "expensive">>
        ELSE <<"cheap">>

C19_IsTunedEvaluatesForwardsRecords ==
  (alone /= None /\ The(alone).answer /= None) =>
    LET sample == IF Answer.evaluated = <<"cheap", "expensive">>
                    THEN Answer.expensive ELSE Answer.cheap
        tuner == The(alone).tuner
    IN /\ Answer.evaluated /= <<>>
       /\ Answer.updated
       /\ tuner.solver.current_values = sample
       /\ tuner.last_parameter_values = sample
       /\ tuner.last_parameter_covariances = AloneVariances

\* A logged call called update_after_step of the solver of the tuner at
\* index k: a DECIDE on a SubsetTuner, or an untuned one on a
\* SensingDotTuner.
UpdatedSolver(c, k) ==
  /\ c.outcome = "DECIDE"
  /\ c.tuner = k
  /\ (tuning_hierarchy[k + 1].cls = "SubsetTuner" \/ ~c.tuned)

\* C20: a call makes at most one update_after_step call, and when it makes
\* one on the solver of a tuner, voltages were set by an earlier call of the
\* run, after which that solver was not updated yet.
C20_OneUpdatePerAppliedStep ==
  /\ Len(call.update_after_step) <= 1
  /\ call.update_after_step /= <<>> =>
       LET k == call.update_after_step[1]
           n == Len(calls)
       IN \E j \in 1 .. n - 1 :
            /\ calls[j].outcome = "APPLY_VOLTAGE"
            /\ \A m \in j + 1 .. n - 1 : ~UpdatedSolver(calls[m], k)

\* C21: the voltages get_next_voltages returns have exactly the gates of the
\* tuner's last voltages, and on every gate that is not one of the tuner's
\* gates the value of the last voltages.
C21_NextVoltagesKeepOtherGates ==
  [][(Called /\ call'.outcome = "PROPOSE") =>
       LET last == The(get_current_tuner.last_voltage)
           next == call'.get_next_voltages[1].result
       IN /\ Index(next) = Index(last)
          /\ \A g \in Index(next) \ get_current_tuner.gates :
               next[g] = last[g]]_vars

\* ---------------------------------------------------------- ChargeDiagram

\* Largest number of operations asked of a charge diagram.
MaxOperations == 2
\* Largest number of rounds of the loop of center_diagram.
MaxRounds == 2

\* The gates of the double dot.
DqdGates == {"BA", "BB", "RFA", "RFB"}

\* The offset measure_positions puts on RFA and RFB: -4e-3.
RF_eps == -400
\* The step calculate_gradient makes on BA and BB, and what it divides by: 3e-3.
B_eps == 300
\* The largest step of center_diagram: 3e-3.
MaxStep == 300
\* How far from the central position a centred diagram can be: 0.2e-3.
CentralTolerance == 20
\* The default central_position: [-0.15e-3, -0.77e-3].
central_position == <<-15, -77>>

\* The gate voltages a double dot can have when a diagram is made on it.
InitialVoltages ==
  {Zeros(DqdGates),
   [g \in DqdGates |-> IF g = "BA" THEN 100 ELSE IF g = "RFB" THEN -400
                                            ELSE IF g = "RFA" THEN 50 ELSE 0]}

\* The positions of the lead transitions find_lead_transition can find: the
\* central one or one with a lead a step of calculate_gradient away.
Found ==
  {central_position,
   <<central_position[1] + B_eps, central_position[2]>>,
   <<central_position[1], central_position[2] + B_eps>>}

\* What is found in the measurements calculate_gradient does not come to,
\* the measurement numbered failing having raised, is left at the central
\* position.
Comes(found, failing) ==
  \A k \in 1 .. 4 :
    (failing /= 0 /\ 2 * k > failing + 1) => found[k] = central_position

\* The gradients a GradKalmanFilter can be given or come to by an update.
Gradients ==
  {<<<<0, 0>>, <<0, 0>>>>, <<<<1, 0>>, <<0, 1>>>>, <<<<1, 1>>, <<-1, 1>>>>,
   <<<<1, 1>>, <<1, 1>>>>}

\* dqd.set_gate_voltages(new_gate_voltages): the gates named are set.
dqd_set_gate_voltages(dqd, new_gate_voltages) ==
  [g \in Index(dqd) |->
     IF g \in Index(new_gate_voltages) THEN new_gate_voltages[g] ELSE dqd[g]]

\* ChargeDiagram.__init__ with the defaults, on a double dot with the
\* voltages dqd: the gradient of the filter is the initX of zeros.
ChargeDiagram_init(dqd) ==
  [dqd |-> dqd,
   central_position |-> central_position,
   position_lead_A |-> 0,
   position_lead_B |-> 0,
   grad |-> <<<<0, 0>>, <<0, 0>>>>]

\* measure_positions without the last set_gate_voltages.
measure_positions_unrestored(chrg, found, failing) ==
  LET to_A == dqd_set_gate_voltages(chrg.dqd, [g \in {"RFB"} |-> RF_eps])
      to_B == dqd_set_gate_voltages(to_A, [g \in {"RFA"} |-> RF_eps])
  IN IF failing = 1
       THEN [chrg |-> [chrg EXCEPT !.dqd = to_A], raised |-> "MeasurementError"]
     ELSE IF failing = 2
       THEN [chrg |-> [chrg EXCEPT !.dqd = to_B, !.position_lead_A = found[1]],
             raised |-> "MeasurementError"]
     ELSE [chrg |-> [chrg EXCEPT !.dqd = to_B,
                                 !.position_lead_A = found[1],
                                 !.position_lead_B = found[2]],
           raised |-> ""]

\* ChargeDiagram.measure_positions, finding the positions found; failing is 0
\* when both measurements return, 1 or 2 when the first or second one raises.
measure_positions(chrg, found, failing) ==
  LET current_gate_voltages == chrg.dqd
      to_A == dqd_set_gate_voltages(chrg.dqd, [g \in {"RFB"} |-> RF_eps])
      to_B == dqd_set_gate_voltages(to_A, [g \in {"RFA"} |-> RF_eps])
  IN IF failing = 1
       THEN [chrg |-> [chrg EXCEPT !.dqd = to_A], raised |-> "MeasurementError"]
     ELSE IF failing = 2
       THEN [chrg |-> [chrg EXCEPT !.dqd = to_B, !.position_lead_A = found[1]],
             raised |-> "MeasurementError"]
     ELSE [chrg |-> [chrg EXCEPT
                       !.dqd = dqd_set_gate_voltages(to_B, current_gate_voltages),
                       !.position_lead_A = found[1],
                       !.position_lead_B = found[2]],
           raised |-> ""]

\* The voltages calculate_gradient sets one after the other, each followed
\* by measure_positions: points[k] is set and found[k] is found there, unless
\* the measurement numbered failing (1 to 8, 0 for none) raises.
RECURSIVE Probe(_, _, _, _, _)
Probe(chrg, points, found, failing, k) ==
  IF k > Len(points)
    THEN [chrg |-> chrg, raised |-> ""]
    ELSE LET at == [chrg EXCEPT !.dqd = dqd_set_gate_voltages(@, points[k])]
             measured == measure_positions(
                           at, found[k],
                           IF failing = 2 * k - 1 THEN 1
                           ELSE IF failing = 2 * k THEN 2 ELSE 0)
         IN IF measured.raised /= ""
              THEN measured
              ELSE Probe(measured.chrg, points, found, failing, k + 1)

\* ChargeDiagram.calculate_gradient, finding found[1] .. found[4] at BA_inc,
\* BA_dec, BB_inc and BB_dec.
calculate_gradient(chrg, found, failing) ==
  LET current_gate_voltages == chrg.dqd
      BA_eps == [g \in {"BA"} |-> B_eps]
      BB_eps == [g \in {"BB"} |-> B_eps]
      minus(eps) == [g \in Index(eps) |-> -eps[g]]
      probed == Probe(chrg,
                      <<Add(current_gate_voltages, BA_eps),
                        Add(current_gate_voltages, minus(BA_eps)),
                        Add(current_gate_voltages, BB_eps),
                        Add(current_gate_voltages, minus(BB_eps))>>,
                      found, failing, 1)
  IN IF probed.raised /= ""
       THEN [chrg |-> probed.chrg, raised |-> probed.raised, gradient |-> None]
       ELSE [chrg |-> [probed.chrg EXCEPT
                         !.dqd = dqd_set_gate_voltages(@, current_gate_voltages)],
             raised |-> "",
             gradient |->
               Some(<<<<(found[1][1] - found[2][1]) \div B_eps,
                        (found[3][1] - found[4][1]) \div B_eps>>,
                      <<(found[1][2] - found[2][2]) \div B_eps,
                        (found[3][2] - found[4][2]) \div B_eps>>>>)]

\* The square of np.linalg.norm of the difference of two positions.
NormSquared(a, b) ==
  (a[1] - b[1]) * (a[1] - b[1]) + (a[2] - b[2]) * (a[2] - b[2])

\* The determinant of a gradient.
Det(grad) == grad[1][1] * grad[2][2] - grad[1][2] * grad[2][1]

\* n / d, to the unit of voltage next below.
Quotient(n, d) == IF d < 0 THEN (-n) \div (-d) ELSE n \div d

\* np.linalg.solve(grad, b) for a gradient that is not singular.
Solve(grad, b) ==
  <<Quotient(grad[2][2] * b[1] - grad[1][2] * b[2], Det(grad)),
    Quotient(grad[1][1] * b[2] - grad[2][1] * b[1], Det(grad))>>

\* np.linalg.norm(du), to the unit next below.
Norm(du) ==
  CHOOSE n \in 0 .. Abs(du[1]) + Abs(du[2]) :
    /\ n * n <= du[1] * du[1] + du[2] * du[2]
    /\ (n + 1) * (n + 1) > du[1] * du[1] + du[2] * du[2]

\* du, made as long as the largest step when it is longer.
Limited(du) ==
  IF du[1] * du[1] + du[2] * du[2] > MaxStep * MaxStep
    THEN <<Quotient(du[1] * MaxStep, Norm(du)),
           Quotient(du[2] * MaxStep, Norm(du))>>
    ELSE du

\* The last operation of the diagram, for the record.
Operation(name, entry, raised) ==
  [name |-> name, entry |-> entry, raised |-> raised]

\* A diagram is made on a double dot.
ConstructChargeDiagram ==
  /\ diagram = None
  /\ \E dqd \in InitialVoltages :
       diagram' = Some([chrg |-> ChargeDiagram_init(dqd),
                        pc |-> "idle",
                        positions |-> <<0, 0>>,
                        rounds |-> 0,
                        operations |-> 0,
                        op |-> Operation("__init__", dqd, "")])
  /\ UNCHANGED <<experiment, tuning_hierarchy, current_tuner_index,
                 current_tuner_status, voltage_to_set, hdf5_storage_path,
                 arguments, call, calls, in_flight, written, built, alone>>

\* The diagram is there and no operation on it is under way.
Idle ==
  /\ diagram /= None
  /\ The(diagram).pc = "idle"
  /\ The(diagram).operations < MaxOperations

\* diagram.measure_positions()
MeasurePositions ==
  /\ Idle
  /\ \E found \in Found, failing \in 0 .. 2 :
       LET measured == measure_positions(The(diagram).chrg, found, failing)
       IN diagram' = Some([The(diagram) EXCEPT
                             !.chrg = measured.chrg,
                             !.operations = @ + 1,
                             !.op = Operation("measure_positions",
                                              The(diagram).chrg.dqd,
                                              measured.raised)])
  /\ UNCHANGED <<experiment, tuning_hierarchy, current_tuner_index,
                 current_tuner_status, voltage_to_set, hdf5_storage_path,
                 arguments, call, calls, in_flight, written, built, alone>>

\* diagram.calculate_gradient()
CalculateGradient ==
  /\ Idle
  /\ \E found \in [1 .. 4 -> Found], failing \in 0 .. 8 :
       LET calculated == calculate_gradient(The(diagram).chrg, found, failing)
       IN /\ Comes(found, failing)
          /\ diagram' = Some([The(diagram) EXCEPT
                             !.chrg = calculated.chrg,
                             !.operations = @ + 1,
                             !.op = Operation("calculate_gradient",
                                              The(diagram).chrg.dqd,
                                              calculated.raised)])
  /\ UNCHANGED <<experiment, tuning_hierarchy, current_tuner_index,
                 current_tuner_status, voltage_to_set, hdf5_storage_path,
                 arguments, call, calls, in_flight, written, built, alone>>

\* diagram.initialize_kalman(initX): with no initX the gradient is the one
\* calculate_gradient returns.
InitializeKalman ==
  /\ Idle
  /\ \E initX \in {None} \cup {Some(grad) : grad \in Gradients},
        found \in [1 .. 4 -> Found], failing \in 0 .. 8 :
       LET calculated == calculate_gradient(The(diagram).chrg, found, failing)
       IN IF initX /= None
            THEN /\ failing = 0
                 /\ found = [k \in 1 .. 4 |-> central_position]
                 /\ diagram' = Some([The(diagram) EXCEPT
                                       !.chrg.grad = The(initX),
                                       !.operations = @ + 1,
                                       !.op = Operation("initialize_kalman",
                                                        The(diagram).chrg.dqd,
                                                        "")])
            ELSE
              /\ Comes(found, failing)
              /\ diagram' = Some([The(diagram) EXCEPT
                                    !.chrg =
                                       IF calculated.raised /= ""
                                         THEN calculated.chrg
                                         ELSE [calculated.chrg EXCEPT
                                                 !.grad = The(calculated.gradient)],
                                    !.operations = @ + 1,
                                    !.op = Operation("initialize_kalman",
                                                     The(diagram).chrg.dqd,
                                                     calculated.raised)])
  /\ UNCHANGED <<experiment, tuning_hierarchy, current_tuner_index,
                 current_tuner_status, voltage_to_set, hdf5_storage_path,
                 arguments, call, calls, in_flight, written, built, alone>>

\* diagram.center_diagram(remeasure_positions), up to its loop.
CenterDiagramStart ==
  /\ Idle
  /\ \E remeasure_positions \in BOOLEAN, found \in Found, failing \in 0 .. 2 :
       LET chrg == The(diagram).chrg
           measured == measure_positions(chrg, found, failing)
           entered == [The(diagram) EXCEPT
                         !.operations = @ + 1,
                         !.rounds = 0,
                         !.op = Operation("center_diagram", chrg.dqd, "")]
       IN IF ~remeasure_positions
            THEN /\ failing = 0
                 /\ found = central_position
                 /\ diagram' = Some([entered EXCEPT
                                       !.pc = "while",
                                       !.positions = <<chrg.position_lead_A,
                                                       chrg.position_lead_B>>])
            ELSE diagram' = Some([entered EXCEPT
                                    !.chrg = measured.chrg,
                                    !.pc = IF measured.raised = ""
                                             THEN "while" ELSE "idle",
                                    !.positions = IF measured.raised = ""
                                                    THEN found ELSE @,
                                    !.op.raised = measured.raised])
  /\ UNCHANGED <<experiment, tuning_hierarchy, current_tuner_index,
                 current_tuner_status, voltage_to_set, hdf5_storage_path,
                 arguments, call, calls, in_flight, written, built, alone>>

\* The diagram is in the loop of center_diagram, away from the central
\* position.
OffCentre ==
  /\ diagram /= None
  /\ The(diagram).pc = "while"
  /\ NormSquared(The(diagram).positions, The(diagram).chrg.central_position)
       > CentralTolerance * CentralTolerance

\* One round of the loop of center_diagram raising in np.linalg.solve.
center_diagram_round_singular(state) ==
  [state EXCEPT !.pc = "idle", !.op.raised = "LinAlgError"]

\* One round of the loop of center_diagram with a gradient that is not
\* singular: the step is made, the positions are measured again and the
\* filter is updated, to the gradient updated.
center_diagram_round(state, found, failing, updated) ==
  LET chrg == state.chrg
      current_position == <<chrg.position_lead_A, chrg.position_lead_B>>
      du == Limited(Solve(chrg.grad,
                          <<current_position[1] - chrg.central_position[1],
                            current_position[2] - chrg.central_position[2]>>))
      diff == [g \in {"BA", "BB"} |-> IF g = "BA" THEN -du[1] ELSE -du[2]]
      stepped == [chrg EXCEPT
                    !.dqd = dqd_set_gate_voltages(@, Add(chrg.dqd, diff))]
      measured == measure_positions(stepped, found, failing)
  IN IF measured.raised /= ""
       THEN [state EXCEPT !.chrg = measured.chrg,
                          !.pc = "idle",
                          !.op.raised = measured.raised]
       ELSE [state EXCEPT !.chrg = [measured.chrg EXCEPT !.grad = updated],
                          !.positions = found,
                          !.rounds = @ + 1]

\* A round of the loop of center_diagram in which np.linalg.solve raises,
\* the gradient being singular.
CenterDiagramSingular ==
  /\ OffCentre
  /\ Det(The(diagram).chrg.grad) = 0
  /\ diagram' = Some(center_diagram_round_singular(The(diagram)))
  /\ UNCHANGED <<experiment, tuning_hierarchy, current_tuner_index,
                 current_tuner_status, voltage_to_set, hdf5_storage_path,
                 arguments, call, calls, in_flight, written, built, alone>>

\* A round of the loop of center_diagram.
CenterDiagramRound ==
  /\ OffCentre
  /\ Det(The(diagram).chrg.grad) /= 0
  /\ The(diagram).rounds < MaxRounds
  /\ \E found \in Found, failing \in 0 .. 2, updated \in Gradients :
       diagram' = Some(center_diagram_round(The(diagram), found, failing,
                                            updated))
  /\ UNCHANGED <<experiment, tuning_hierarchy, current_tuner_index,
                 current_tuner_status, voltage_to_set, hdf5_storage_path,
                 arguments, call, calls, in_flight, written, built, alone>>

\* center_diagram returns, the positions being central.
CenterDiagramReturn ==
  /\ diagram /= None
  /\ The(diagram).pc = "while"
  /\ ~OffCentre
  /\ diagram' = Some([The(diagram) EXCEPT !.pc = "idle"])
  /\ UNCHANGED <<experiment, tuning_hierarchy, current_tuner_index,
                 current_tuner_status, voltage_to_set, hdf5_storage_path,
                 arguments, call, calls, in_flight, written, built, alone>>

NextChargeDiagram ==
  \/ ConstructChargeDiagram
  \/ MeasurePositions
  \/ CalculateGradient
  \/ InitializeKalman
  \/ CenterDiagramStart
  \/ CenterDiagramSingular
  \/ CenterDiagramRound
  \/ CenterDiagramReturn

\* A charge diagram, beside an autotuner with one plain tuner.
SpecChargeDiagram == InitConstruction /\ [][NextChargeDiagram]_vars

\* ----------------------------------------------------- saving, rebuilding

\* ParameterTuner.to_hdf5: the fields of a tuner that are saved (the
\* evaluators, which the model keeps no state of, left out).
ParameterTuner_to_hdf5(par_tuner) ==
  [solver |-> par_tuner.solver,
   tuned_voltages |-> par_tuner.tuned_voltages,
   last_voltage |-> par_tuner.last_voltage,
   last_parameter_values |-> par_tuner.last_parameter_values,
   last_parameter_covariances |-> par_tuner.last_parameter_covariances]

\* SubsetTuner.to_hdf5: dict(parent_dict, gates=self._gates)
SubsetTuner_to_hdf5(par_tuner) ==
  LET parent_dict == ParameterTuner_to_hdf5(par_tuner)
  IN [f \in DOMAIN parent_dict \cup {"gates"} |->
        IF f = "gates" THEN par_tuner.gates ELSE parent_dict[f]]

\* SensingDotTuner.to_hdf5
SensingDotTuner_to_hdf5(par_tuner) ==
  [gates |-> par_tuner.gates,
   solver |-> par_tuner.solver,
   last_parameter_values |-> par_tuner.last_parameter_values,
   last_parameter_covariances |-> par_tuner.last_parameter_covariances]

\* Autotuner.to_hdf5, with every tuner of the hierarchy saved by the to_hdf5
\* of its class.
to_hdf5 ==
  [tuning_hierarchy |->
     [k \in DOMAIN tuning_hierarchy |->
        [cls |-> tuning_hierarchy[k].cls,
         fields |-> IF tuning_hierarchy[k].cls = "SubsetTuner"
                      THEN SubsetTuner_to_hdf5(tuning_hierarchy[k])
                      ELSE SensingDotTuner_to_hdf5(tuning_hierarchy[k])]],
   current_tuner_index |-> current_tuner_index,
   current_tuner_status |-> current_tuner_status,
   voltage_to_set |-> voltage_to_set,
   hdf5_storage_path |-> hdf5_storage_path]

\* ParameterTuner.__init__ called with saved fields as its keyword arguments:
\* tuned_voltages and last_voltage have the defaults [] and None.
ParameterTuner_from_fields(cls, fields) ==
  [cls |-> cls,
   gates |-> fields.gates,
   solver |-> fields.solver,
   tuned_voltages |-> IF "tuned_voltages" \in DOMAIN fields
                        THEN fields.tuned_voltages ELSE <<>>,
   last_voltage_appended |-> FALSE,
   last_voltage |-> IF "last_voltage" \in DOMAIN fields
                      THEN fields.last_voltage ELSE None,
   last_parameter_values |-> fields.last_parameter_values,
   last_parameter_covariances |-> fields.last_parameter_covariances]

\* Autotuner.__init__ called with saved fields as its keyword arguments
\* (append_time_to_path, which is not saved, at its default True): a tuner
\* without last voltages gets the voltages read from the experiment.
Autotuner_from_fields(fields) ==
  [tuning_hierarchy |->
     [k \in DOMAIN fields.tuning_hierarchy |->
        LET par_tuner == ParameterTuner_from_fields(
                           fields.tuning_hierarchy[k].cls,
                           fields.tuning_hierarchy[k].fields)
        IN IF par_tuner.last_voltage = None
             THEN [par_tuner EXCEPT !.last_voltage = Some(read_gate_voltages)]
             ELSE par_tuner],
   current_tuner_index |-> fields.current_tuner_index,
   current_tuner_status |-> fields.current_tuner_status,
   voltage_to_set |-> fields.voltage_to_set,
   hdf5_storage_path |-> StoragePath(fields.hdf5_storage_path, TRUE)]

\* The tuner asked directly was last asked get_next_voltages.
AskedNext == alone /= None /\ The(alone).next /= None

\* C22: the tuned voltages of a SubsetTuner gain exactly one entry, the
\* voltages passed, on an is_tuned call that returns True, are unchanged by an
\* is_tuned call that returns False and by get_next_voltages, and no entry
\* already there is removed or altered.
C22_TunedVoltagesOnlyGrowOnTuned ==
  /\ (Answered("SubsetTuner") /\ ~AskedNext) =>
        The(alone).tuner.tuned_voltages =
          IF Answer.result
            THEN Append(Answer.before.tuned_voltages, Answer.voltages)
            ELSE Answer.before.tuned_voltages
  /\ (AskedNext /\ The(alone).tuner.cls = "SubsetTuner") =>
        The(alone).tuner.tuned_voltages =
          The(The(alone).next).before.tuned_voltages
\* The autotuner rebuilt from what to_hdf5 saves of the current one.
Rebuilt == Autotuner_from_fields(to_hdf5)

\* The fields of a tuner that a save and rebuild is to keep.
Kept(par_tuner) ==
  [f \in {"solver", "last_voltage", "last_parameter_values",
          "last_parameter_covariances", "gates", "tuned_voltages"} |->
     par_tuner[f]]

\* C23: the autotuner rebuilt from the fields to_hdf5 saves has the same
\* index, status, voltages to set and storage path, and every tuner of its
\* hierarchy, of either class, has the same solver, last voltages, last
\* parameter values and covariances, gates and tuned voltages.
C23_SaveAndRebuildIsLossless ==
  /\ Rebuilt.current_tuner_index = current_tuner_index
  /\ Rebuilt.current_tuner_status = current_tuner_status
  /\ Rebuilt.voltage_to_set = voltage_to_set
  /\ Rebuilt.hdf5_storage_path = hdf5_storage_path
  /\ DOMAIN Rebuilt.tuning_hierarchy = DOMAIN tuning_hierarchy
  /\ \A k \in DOMAIN tuning_hierarchy :
       Kept(Rebuilt.tuning_hierarchy[k]) = Kept(tuning_hierarchy[k])
\* The last operation of the charge diagram was name and has returned.
HasReturned(name) ==
  /\ diagram /= None
  /\ The(diagram).pc = "idle"
  /\ The(diagram).op.name = name
  /\ The(diagram).op.raised = ""

\* C24: center_diagram does not raise for a singular gradient (such as the
\* zeros the filter has before initialize_kalman).
C24_SingularGradientDoesNotRaise ==
  (diagram /= None /\ The(diagram).op.name = "center_diagram") =>
    The(diagram).op.raised /= "LinAlgError"

\* C27: when measure_positions or calculate_gradient has returned, every gate
\* of the double dot has the voltage it had when the operation began.
C27_ProbingRestoresTheVoltages ==
  (HasReturned("measure_positions") \/ HasReturned("calculate_gradient")) =>
    The(diagram).chrg.dqd = The(diagram).op.entry

\* calculate_gradient has returned on a double dot whose RFA, RFB and BA were
\* not at the voltages the probing puts them to.
C27_Witness ==
  /\ HasReturned("calculate_gradient")
  /\ The(diagram).op.entry["RFA"] = 50
  /\ The(diagram).op.entry["BA"] = 100
  /\ The(diagram).operations = 2
\* C26: with the default start (index 0, status clear, no voltages to set)
\* the index is always between 0 and the length of the hierarchy, voltages
\* to set and a set status never come together, and whenever the status is
\* set or there are voltages to set the index is below the length of the
\* hierarchy.
C26_IndexStatusAndPendingCohere ==
  DefaultStart =>
    /\ current_tuner_index \in 0 .. Len(tuning_hierarchy)
    /\ ~(voltage_to_set /= None /\ current_tuner_status)
    /\ (current_tuner_status \/ voltage_to_set /= None) =>
         current_tuner_index < Len(tuning_hierarchy)

\* C26 witness: after the default start the second tuner was found untuned
\* and has proposed voltages, which are to be set.
C26_Witness ==
  /\ DefaultStart
  /\ current_tuner_index = 1
  /\ voltage_to_set /= None
  /\ call.outcome = "PROPOSE"
\* The number of the last call so far that set voltages (0 when none did).
LastWrite ==
  LET writes == {i \in DOMAIN calls : calls[i].outcome = "APPLY_VOLTAGE"}
  IN IF writes = {} THEN 0
     ELSE CHOOSE i \in writes : \A j \in writes : j <= i

\* The tuner at index k was found tuned by a call after the last one that set
\* voltages.
TunedSinceLastWrite(k) ==
  \E i \in DOMAIN calls :
    /\ i > LastWrite
    /\ calls[i] = [outcome |-> "DECIDE", tuner |-> k, tuned |-> TRUE]

\* C25: when the autotuner was started at index 0, every tuner below the
\* current index was found tuned by an is_tuned call made after the last
\* time the autotuner set voltages; so when the tuning is complete all
\* tuners were found tuned with no voltages set in between.
C25_TunersBelowIndexTunedSinceLastWrite ==
  arguments.index = 0 =>
    \A k \in 0 .. current_tuner_index - 1 : TunedSinceLastWrite(k)

\* C25 witness: after the default start a tuner was found untuned, voltages
\* were proposed and set, and then both tuners were found tuned: the tuning
\* is complete.
C25_Witness ==
  /\ DefaultStart
  /\ Len(tuning_hierarchy) = 2
  /\ is_tuning_complete
  /\ LastWrite > 0
====
